---------------------------- MODULE Spec2Model ----------------------------
(***************************************************************************)
(* Vulkan / OpenGL interop sample (gl_vk_simple_interop).                  *)
(*                                                                         *)
(* The model follows the application of main.cpp: prepare() creates the    *)
(* shared vertex buffer, the semaphore pair and the shared texture; every  *)
(* frame optionally resizes the texture (update), signals "ready" on the   *)
(* OpenGL side, records and submits the Vulkan compute pass and draws with *)
(* OpenGL after a GPU-side wait on "complete"; destroy() tears down.       *)
(*                                                                         *)
(* Three generations of the interop header are in the repository; `build`  *)
(* selects the one compiled in, `platform` the #ifdef WIN32 branch:        *)
(*   "gl_vk_refcount"  unnamed/part_001  (MemoryObjectManager cache)       *)
(*   "gl_vk"           compute.hpp:921..1089 (handle kept in the struct)   *)
(*   "gl_vkpp"         gl_vkpp.hpp       (same, texture deleted as buffer; *)
(*                     built with the first ComputeImageVk: no fence, no   *)
(*                     queue-idle wait in submit, no resize)               *)
(* The two GPU queues run on their own; the OpenGL names, the device       *)
(* memory blocks and the moment clearMemoryObjectManager() is called are   *)
(* chosen by the environment.                                              *)
(***************************************************************************)
EXTENDS Integers, Sequences, FiniteSets, TLC

\* ------------------------------------------------------------------ bounds
MaxFrames == 2          \* frames the main loop runs before the window closes
MaxDeviceMemory == 2    \* VkDeviceMemory blocks the allocator can hand out
MaxGLName == 2          \* memory-object names OpenGL can hand out
MaxClears == 2          \* calls of clearMemoryObjectManager()
MaxThreadOps == 2       \* manager calls each concurrent caller makes

\* --------------------------------------------------------- program constants
InitialSize == 1024     \* main.cpp:95   m_compute.update({1024, 1024})
EarliestSize == 512     \* compute.hpp:754  the first version's fixed texture extent
LocalSize == 16         \* shader.comp.glsl:23  local_size_x = 16, local_size_y = 16
MinTextureSize == 1     \* main.cpp:169  slider minimum
MaxTextureSize == 16384 \* main.cpp:169  slider maximum
SAMPLE_SIZE_WIDTH == 1200 \* main.cpp:54  initial window width and height
NullHandle == 0         \* HANDLE handle = nullptr; GLuint x = 0
NoFd == -1              \* int fd = -1

DeviceMems == 1..MaxDeviceMemory
GLNames == 1..MaxGLName
\* one export per semaphore, one for the buffer, one per texture creation
MaxHandle == MaxFrames + 4
Handles == 0..MaxHandle
Extents == { <<MinTextureSize, MinTextureSize>>,
             <<InitialSize, InitialSize>>,
             <<MaxTextureSize, MaxTextureSize>> }
Builds == {"gl_vk_refcount", "gl_vk", "gl_vkpp"}
Platforms == {"WIN32", "POSIX"}
\* glfwGetWindowSize: a minimised window reports 0
WindowSizes == {0, SAMPLE_SIZE_WIDTH}
\* what the machine offers: the Vulkan external-memory / external-semaphore
\* extensions, and the two OpenGL extensions of EXT_external_objects
Caps == {"VK_KHR_external", "GL_EXT_semaphore", "GL_EXT_memory_object"}

VARIABLES
  platform, build,            \* compile-time configuration
  caps,                       \* capabilities of the machine
  pc, ret, frame, newSize,    \* CPU thread: position, return position of update(),
                              \* frames started, extent passed to update()
  m_bufferVk, m_textureTarget,\* BufferVkGL / Texture2DVkGL structs
  m_importedMemoryObjects,    \* MemoryObjectManager: VkDeviceMemory -> GLuint
  m_refCounts,                \* MemoryObjectManager: GLuint -> count
  m_win32Handles,             \* MemoryObjectManager: GLuint -> HANDLE (WIN32)
  glMemoryObjects, glBuffers, glTextures,   \* live OpenGL names
  vkBlocks, vkImages, nextImage,  \* live allocations per block, live images
  vkExportable, plainExports, \* blocks allocated for export; handle exports
                              \* requested from objects created without it
  nextHandle, importCalls, closeCalls, \* OS handles / descriptors
  m_semaphores, semReady, semComplete, m_fence, \* sync objects
  m_descriptorSet, m_commandBuffer,
  vkQueue, vkRunning, glQueue, glRunning,   \* the two GPU queues
  readyDone, completeDone, drawDone,        \* last frame whose step finished
  entryStats, staleDeletes, clearCalls, forcedClear,  \* history
  waitLog, debugAbort,
  iter,                       \* the current main-loop iteration: window size
                              \* zero or not, calls made so far
  callers                     \* threads inside acquireMemoryObject /
                              \* releaseMemoryObject (the application has none)

vars == << platform, build, caps, pc, ret, frame, newSize, m_bufferVk, m_textureTarget,
           m_importedMemoryObjects, m_refCounts, m_win32Handles,
           glMemoryObjects, glBuffers, glTextures, vkBlocks, vkImages, nextImage,
           vkExportable, plainExports, nextHandle, importCalls, closeCalls,
           m_semaphores, semReady, semComplete, m_fence,
           m_descriptorSet, m_commandBuffer,
           vkQueue, vkRunning, glQueue, glRunning,
           readyDone, completeDone, drawDone,
           entryStats, staleDeletes, clearCalls, forcedClear, waitLog, debugAbort, iter,
           callers >>

\* what no step of the application changes
cfgVars == << platform, build, caps, callers >>
resVars == << m_bufferVk, m_textureTarget >>
worldVars == << m_importedMemoryObjects, m_refCounts, m_win32Handles,
                glMemoryObjects, glBuffers, glTextures, vkBlocks, vkImages,
                vkExportable, plainExports, nextHandle, importCalls, closeCalls, entryStats, staleDeletes >>
gpuVars == << semReady, semComplete, m_fence, vkQueue, vkRunning, glQueue, glRunning,
              readyDone, completeDone, drawDone >>

\* ----------------------------------------------------------------- helpers
Put(f, k, v) == [x \in DOMAIN f \cup {k} |-> IF x = k THEN v ELSE f[x]]
Drop(f, k) == [x \in DOMAIN f \ {k} |-> f[x]]
EmptyMap == [x \in {} |-> 0]
Bump(f, k) == [f EXCEPT ![k] = @ + 1]

NoStats == [acq |-> 0, rel |-> 0, del |-> 0, exp |-> 0]
Refcounted == build = "gl_vk_refcount"
\* gl_vkpp.hpp is included by the first ComputeImageVk only (compute.hpp:678):
\* no fence, no vkQueueWaitIdle in submit(), no update() for a resize
Earliest == build = "gl_vkpp"

\* struct BufferVkGL / Texture2DVkGL, default-initialised
DefaultBuffer == [alloc |-> 0, handle |-> NullHandle, fd |-> NoFd,
                  memoryObject |-> 0, oglId |-> 0]
DefaultTexture == [alloc |-> 0, image |-> 0, extent |-> <<0, 0>>,
                   handle |-> NullHandle, fd |-> NoFd,
                   memoryObject |-> 0, oglId |-> 0]

\* The part of the state MemoryObjectManager and the import helpers work on.
World == [imported |-> m_importedMemoryObjects, refCounts |-> m_refCounts,
          win32Handles |-> m_win32Handles, glMem |-> glMemoryObjects,
          glBuf |-> glBuffers, glTex |-> glTextures,
          blocks |-> vkBlocks, images |-> vkImages,
          exportable |-> vkExportable, plain |-> plainExports,
          next |-> nextHandle, imports |-> importCalls, closes |-> closeCalls,
          stats |-> entryStats, stale |-> staleDeletes]

SetWorld(w) ==
  /\ m_importedMemoryObjects' = w.imported
  /\ m_refCounts' = w.refCounts
  /\ m_win32Handles' = w.win32Handles
  /\ glMemoryObjects' = w.glMem
  /\ glBuffers' = w.glBuf
  /\ glTextures' = w.glTex
  /\ vkBlocks' = w.blocks
  /\ vkImages' = w.images
  /\ vkExportable' = w.exportable
  /\ plainExports' = w.plain
  /\ nextHandle' = w.next
  /\ importCalls' = w.imports
  /\ closeCalls' = w.closes
  /\ entryStats' = w.stats
  /\ staleDeletes' = w.stale

\* glDeleteMemoryObjectsEXT(1, &name): unused names and 0 are silently ignored
glDeleteMemoryObjectsEXT(w, name) ==
  IF name \in w.glMem THEN [w EXCEPT !.glMem = @ \ {name}]
  ELSE IF name # 0 THEN [w EXCEPT !.stale = @ + 1]
  ELSE w

\* CloseHandle(h) / close(fd)
CloseHandle(w, h) == [w EXCEPT !.closes = Bump(@, h)]

\* vkGetMemoryFdKHR / vkGetMemoryWin32HandleKHR / vkGetSemaphore*: a new handle
ExportedHandle(w) == w.next
ExportHandle(w) == [w EXCEPT !.next = @ + 1]

\* vkGetMemoryFdKHR / vkGetMemoryWin32HandleKHR / vmaGetMemoryWin32Handle on
\* the block of an allocation
ExportMemory(w, deviceMemory) ==
  [ExportHandle(w) EXCEPT
     !.plain = IF w.exportable[deviceMemory] THEN @ ELSE @ + 1]

\* glImportMemoryFdEXT / glImportMemoryWin32HandleEXT / glImportSemaphore*
ImportHandle(w, h) == [w EXCEPT !.imports = Bump(@, h)]

\* glCreateBuffers / glCreateTextures: the lowest unused name of the namespace
NewName(used) == CHOOSE n \in 1..(Cardinality(used) + 1) :
                   n \notin used /\ \A k \in 1..(n - 1) : k \in used

\* ------------------------------------------------- MemoryObjectManager
KeysOf(w, memObject) == {d \in DOMAIN w.imported : w.imported[d] = memObject}
\* the map entry the erase loop of releaseMemoryObject stops at (0: none)
FirstMatch(w, memObject) ==
  IF KeysOf(w, memObject) = {} THEN {0} ELSE KeysOf(w, memObject)

\* acquireMemoryObject, cache hit: count the reference, return the cached id
acquireCached(w, deviceMemory) ==
  LET id == w.imported[deviceMemory] IN
  [w |-> [w EXCEPT
            !.refCounts = IF id \in DOMAIN @ THEN Bump(@, id) ELSE @,
            !.stats = [@ EXCEPT ![deviceMemory].acq = @ + 1]],
   id |-> id]

\* acquireMemoryObject, cache miss: create the memory object `memoryObject`,
\* export a handle of the device memory, import it, insert with count 1
acquireImported(w, deviceMemory, memoryObject) ==
  LET h == ExportedHandle(w)
      w1 == ImportHandle(ExportMemory(w, deviceMemory), h)
      w2 == [w1 EXCEPT
               !.glMem = @ \cup {memoryObject},
               !.win32Handles = IF platform = "WIN32"
                                THEN Put(@, memoryObject, h) ELSE @,
               !.imported = Put(@, deviceMemory, memoryObject),
               !.refCounts = Put(@, memoryObject, 1),
               !.stats = [@ EXCEPT ![deviceMemory] =
                            [acq |-> 1, rel |-> 0, del |-> 0, exp |-> 1]]]
  IN [w |-> w2, id |-> memoryObject]

\* a cache that never hits: every acquire exports and imports again
acquireMemoryObject_NoCache(w, deviceMemory, memoryObject) ==
  LET h == ExportedHandle(w)
      w1 == ImportHandle(ExportHandle(w), h)
      old == IF deviceMemory \in DOMAIN w.imported
             THEN w.stats[deviceMemory] ELSE NoStats
      w2 == [w1 EXCEPT
               !.glMem = @ \cup {memoryObject},
               !.win32Handles = IF platform = "WIN32"
                                THEN Put(@, memoryObject, h) ELSE @,
               !.imported = Put(@, deviceMemory, memoryObject),
               !.refCounts = Put(@, memoryObject, 1),
               !.stats = [@ EXCEPT ![deviceMemory] =
                            [acq |-> old.acq + 1, rel |-> old.rel,
                             del |-> old.del, exp |-> old.exp + 1]]]
  IN [w |-> w2, id |-> memoryObject]

acquireMemoryObject(w, deviceMemory, memoryObject) ==
  IF deviceMemory \in DOMAIN w.imported
  THEN acquireCached(w, deviceMemory)
  ELSE acquireImported(w, deviceMemory, memoryObject)

\* the count drops but the entry is never destroyed
releaseLast_Leak(w, memObject, memIt) ==
  [w EXCEPT !.refCounts = [@ EXCEPT ![memObject] = 0],
            !.stats = [d \in DOMAIN @ |->
                         IF d \in KeysOf(w, memObject)
                         THEN [@[d] EXCEPT !.rel = @ + 1] ELSE @[d]]]

\* the destruction branch without the loop that erases the device-memory key
releaseLast_KeepsKey(w, memObject, memIt) ==
  LET w1 == glDeleteMemoryObjectsEXT(w, memObject)
      w2 == IF platform = "WIN32" /\ memObject \in DOMAIN w1.win32Handles
            THEN [CloseHandle(w1, w1.win32Handles[memObject])
                    EXCEPT !.win32Handles = Drop(@, memObject)]
            ELSE w1
  IN [w2 EXCEPT
        !.refCounts = Drop(@, memObject),
        !.stats = [d \in DOMAIN @ |->
                     IF d \in KeysOf(w, memObject)
                     THEN [@[d] EXCEPT !.rel = @ + 1, !.del = @ + 1]
                     ELSE @[d]]]

\* the destruction branch of releaseMemoryObject (newCount == 0)
releaseLast(w, memObject, memIt) ==
  LET w1 == glDeleteMemoryObjectsEXT(w, memObject)
      w2 == IF platform = "WIN32" /\ memObject \in DOMAIN w1.win32Handles
            THEN [CloseHandle(w1, w1.win32Handles[memObject])
                    EXCEPT !.win32Handles = Drop(@, memObject)]
            ELSE w1
  IN [w2 EXCEPT
        !.refCounts = Drop(@, memObject),
        !.imported = IF memIt = 0 THEN @ ELSE Drop(@, memIt),
        !.stats = [d \in DOMAIN @ |->
                     IF d \in KeysOf(w, memObject)
                     THEN [@[d] EXCEPT !.rel = @ + 1, !.del = @ + 1]
                     ELSE @[d]]]

\* every release destroys the entry, whatever the count
releaseMemoryObject_Eager(w, memObject, memIt) ==
  IF memObject \in DOMAIN w.refCounts THEN releaseLast(w, memObject, memIt) ELSE w

\* releaseMemoryObject(memObject): an unknown id is skipped without a word.
\* A stored count is never 0 (it starts at 1 and the entry is erased at 0),
\* so the unsigned fetch_sub(1) - 1 cannot wrap.
releaseMemoryObject(w, memObject, memIt) ==
  IF memObject \in DOMAIN w.refCounts
  THEN LET newCount == w.refCounts[memObject] - 1 IN
       IF newCount = 0
       THEN releaseLast(w, memObject, memIt)
       ELSE [w EXCEPT
               !.refCounts = [@ EXCEPT ![memObject] = newCount],
               !.stats = [d \in DOMAIN @ |->
                            IF d \in KeysOf(w, memObject)
                            THEN [@[d] EXCEPT !.rel = @ + 1] ELSE @[d]]]
  ELSE w

\* clear() that spares the entries more than one resource refers to
clear_SkipsShared(w) ==
  LET names == {m \in DOMAIN w.refCounts \ {0} : w.refCounts[m] <= 1}
      kept == {m \in DOMAIN w.win32Handles :
                 w.win32Handles[m] # NullHandle /\ m \in names}
  IN [w EXCEPT
        !.glMem = @ \ names,
        !.stale = @ + Cardinality(names \ w.glMem),
        !.closes = [h \in DOMAIN @ |->
                      @[h] + Cardinality({m \in kept : w.win32Handles[m] = h})],
        !.win32Handles = [m \in DOMAIN @ \ names |-> @[m]],
        !.imported = [d \in {x \in DOMAIN @ : @[x] \notin names} |-> @[d]],
        !.refCounts = [m \in DOMAIN @ \ names |-> @[m]]]

\* clear() that forgets m_refCounts.clear()
clear_KeepsCounts(w) ==
  LET names == DOMAIN w.refCounts \ {0}
      kept == {m \in DOMAIN w.win32Handles : w.win32Handles[m] # NullHandle}
  IN [w EXCEPT
        !.glMem = @ \ names,
        !.stale = @ + Cardinality(names \ w.glMem),
        !.closes = [h \in DOMAIN @ |->
                      @[h] + Cardinality({m \in kept : w.win32Handles[m] = h})],
        !.win32Handles = EmptyMap,
        !.imported = EmptyMap]

\* clear(): delete every memory object, close every retained handle, empty the maps
clear(w) ==
  LET names == DOMAIN w.refCounts \ {0}
      kept == {m \in DOMAIN w.win32Handles : w.win32Handles[m] # NullHandle}
  IN [w EXCEPT
        !.glMem = @ \ names,
        !.stale = @ + Cardinality(names \ w.glMem),
        !.closes = [h \in DOMAIN @ |->
                      @[h] + Cardinality({m \in kept : w.win32Handles[m] = h})],
        !.win32Handles = EmptyMap,
        !.imported = EmptyMap,
        !.refCounts = EmptyMap,
        !.stats = [d \in DOMAIN @ |->
                     IF d \in DOMAIN w.imported
                     THEN [@[d] EXCEPT !.del = @ + 1] ELSE @[d]]]

\* ------------------------------------------------ allocator (nvvk, external)
\* The exporting allocator returns the device-memory block of the new
\* allocation: a block it allocates now (the lowest free handle value, so a
\* freed VkDeviceMemory value comes back) or, with the VMA-based allocator of
\* the refcount build, a block that already holds another allocation.  The
\* dedicated allocator of the older builds always allocates a new block.
FreeBlocks(w) == {d \in DeviceMems : w.blocks[d] = 0}
NewBlock(w) == {d \in FreeBlocks(w) : \A e \in FreeBlocks(w) : d <= e}
AllocChoices(w) ==
  IF Refcounted THEN NewBlock(w) \cup (DeviceMems \ FreeBlocks(w)) ELSE NewBlock(w)

\* ordinary allocation: the request goes to vkAllocateMemory as it came
AllocateMemory_Plain(allocateInfo) == allocateInfo

\* the exporting allocator's AllocateMemory: the request gets the export
\* structure chained in before vkAllocateMemory
AllocateMemory(allocateInfo) == [allocateInfo EXCEPT !.export = TRUE]

\* createBuffer / createImageExport placing the resource in block d; a block
\* without allocations is allocated now
Allocate(w, d) ==
  [w EXCEPT !.blocks = Bump(@, d),
            !.exportable = IF w.blocks[d] = 0
                           THEN [@ EXCEPT ![d] = AllocateMemory([export |-> FALSE]).export]
                           ELSE @]

\* alloc.destroyBuffer / destroyImage / destroy: frees and nulls the object;
\* a block left without allocations is freed
FreeAllocation(w, r) ==
  IF r.alloc = 0 THEN w
  ELSE [w EXCEPT !.blocks = [@ EXCEPT ![r.alloc] = @ - 1],
                 !.exportable = IF w.blocks[r.alloc] = 1
                                THEN [@ EXCEPT ![r.alloc] = FALSE] ELSE @]

\* -------------------------------------------- BufferVkGL / Texture2DVkGL
\* Every operator returns [w |-> the world after the call, r |-> the struct].

\* part_001: createBufferGL
createBufferGL_refcount(w, bufGl, oglId, memoryObject) ==
  LET a == acquireMemoryObject(w, bufGl.alloc, memoryObject) IN
  [w |-> [a.w EXCEPT !.glBuf = @ \cup {oglId}],
   r |-> [bufGl EXCEPT !.oglId = oglId, !.memoryObject = a.id]]

\* export into the struct, create the objects, import: the state before the
\* "fd got consumed" assignment
importBuffer(w, bufGl, oglId, memoryObject) ==
  LET h == ExportedHandle(w)
      w1 == ImportHandle(ExportMemory(w, bufGl.alloc), h)
  IN [w |-> [w1 EXCEPT !.glBuf = @ \cup {oglId}, !.glMem = @ \cup {memoryObject}],
      r |-> [bufGl EXCEPT !.handle = IF platform = "WIN32" THEN h ELSE @,
                          !.fd = IF platform = "WIN32" THEN @ ELSE h,
                          !.oglId = oglId, !.memoryObject = memoryObject]]

\* gl_vkpp.hpp / compute.hpp:1021: createBufferGL
createBufferGL_handles(w, bufGl, oglId, memoryObject) ==
  LET i == importBuffer(w, bufGl, oglId, memoryObject) IN
  [i EXCEPT !.r.fd = NoFd]

createBufferGL(w, bufGl, oglId, memoryObject) ==
  IF Refcounted THEN createBufferGL_refcount(w, bufGl, oglId, memoryObject)
  ELSE createBufferGL_handles(w, bufGl, oglId, memoryObject)

\* destroy() that leaves the released id in the memoryObject field
BufferDestroy_NoReset(w, buf, memIt) ==
  LET w1 == [FreeAllocation(w, buf) EXCEPT !.glBuf = @ \ {buf.oglId}] IN
  IF buf.memoryObject # 0
  THEN [w |-> releaseMemoryObject(w1, buf.memoryObject, memIt),
        r |-> [buf EXCEPT !.alloc = 0]]
  ELSE [w |-> w1, r |-> [buf EXCEPT !.alloc = 0]]

\* destroy() that forgets the reference it holds
BufferDestroy_NoRelease(w, buf, memIt) ==
  [w |-> [FreeAllocation(w, buf) EXCEPT !.glBuf = @ \ {buf.oglId}],
   r |-> [buf EXCEPT !.alloc = 0, !.memoryObject = 0]]

\* part_001: BufferVkGL::destroy
BufferDestroy_refcount(w, buf, memIt) ==
  LET w1 == [FreeAllocation(w, buf) EXCEPT !.glBuf = @ \ {buf.oglId}] IN
  IF buf.memoryObject # 0
  THEN [w |-> releaseMemoryObject(w1, buf.memoryObject, memIt),
        r |-> [buf EXCEPT !.alloc = 0, !.memoryObject = 0]]
  ELSE [w |-> w1, r |-> [buf EXCEPT !.alloc = 0]]

\* gl_vkpp.hpp / compute.hpp:970: BufferVkGL::destroy
BufferDestroy_handles(w, buf) ==
  LET w1 == FreeAllocation(w, buf)
      w2 == IF platform = "WIN32" THEN CloseHandle(w1, buf.handle)
            ELSE IF buf.fd # NoFd THEN CloseHandle(w1, buf.fd) ELSE w1
      w3 == glDeleteMemoryObjectsEXT([w2 EXCEPT !.glBuf = @ \ {buf.oglId}],
                                     buf.memoryObject)
  IN [w |-> w3, r |-> [buf EXCEPT !.alloc = 0, !.fd = NoFd]]

\* part_001: createTextureGL
createTextureGL_refcount(w, texGl, oglId, memoryObject) ==
  LET a == acquireMemoryObject(w, texGl.alloc, memoryObject) IN
  [w |-> [a.w EXCEPT !.glTex = @ \cup {oglId}],
   r |-> [texGl EXCEPT !.oglId = oglId, !.memoryObject = a.id]]

importTexture(w, texGl, oglId, memoryObject) ==
  LET h == ExportedHandle(w)
      w1 == ImportHandle(ExportMemory(w, texGl.alloc), h)
  IN [w |-> [w1 EXCEPT !.glTex = @ \cup {oglId}, !.glMem = @ \cup {memoryObject}],
      r |-> [texGl EXCEPT !.handle = IF platform = "WIN32" THEN h ELSE @,
                          !.fd = IF platform = "WIN32" THEN @ ELSE h,
                          !.oglId = oglId, !.memoryObject = memoryObject]]

\* the descriptor stays in the struct after the import
createTextureGL_FdKept(w, texGl, oglId, memoryObject) ==
  importTexture(w, texGl, oglId, memoryObject)

\* gl_vkpp.hpp / compute.hpp:1052: createTextureGL
createTextureGL_handles(w, texGl, oglId, memoryObject) ==
  LET i == importTexture(w, texGl, oglId, memoryObject) IN
  [i EXCEPT !.r.fd = NoFd]

createTextureGL(w, texGl, oglId, memoryObject) ==
  IF Refcounted THEN createTextureGL_refcount(w, texGl, oglId, memoryObject)
  ELSE createTextureGL_handles(w, texGl, oglId, memoryObject)

\* alloc.destroyImage / alloc.destroy(texVk)
DestroyImage(w, tex) ==
  [FreeAllocation(w, tex) EXCEPT !.images = @ \ {tex.image}]

\* the texture is deleted but its cache reference is never released
TextureDestroy_NoRelease(w, tex, memIt) ==
  [w |-> DestroyImage([w EXCEPT !.glTex = @ \ {tex.oglId}], tex),
   r |-> [tex EXCEPT !.alloc = 0, !.image = 0, !.extent = <<0, 0>>,
                     !.memoryObject = 0]]

\* destroy() releases the reference twice
TextureDestroy_DoubleRelease(w, tex, memIt) ==
  LET w1 == [w EXCEPT !.glTex = @ \ {tex.oglId}]
      w2 == releaseMemoryObject(w1, tex.memoryObject, memIt)
      w3 == releaseMemoryObject(w2, tex.memoryObject, memIt)
  IN [w |-> DestroyImage(w3, tex),
      r |-> [tex EXCEPT !.alloc = 0, !.image = 0, !.extent = <<0, 0>>,
                        !.memoryObject = 0]]

\* part_001: Texture2DVkGL::destroy
TextureDestroy_refcount(w, tex, memIt) ==
  LET w1 == [w EXCEPT !.glTex = @ \ {tex.oglId}]
      w2 == IF tex.memoryObject # 0
            THEN releaseMemoryObject(w1, tex.memoryObject, memIt) ELSE w1
  IN [w |-> DestroyImage(w2, tex),
      r |-> [tex EXCEPT !.alloc = 0, !.image = 0, !.extent = <<0, 0>>,
                        !.memoryObject = 0]]

\* compute.hpp:1002 (glDeleteTextures) and gl_vkpp.hpp:81 (glDeleteBuffers)
TextureDestroy_handles(w, tex) ==
  LET w1 == DestroyImage(w, tex)
      w2 == IF platform = "WIN32" THEN CloseHandle(w1, tex.handle)
            ELSE IF tex.fd # NoFd THEN CloseHandle(w1, tex.fd) ELSE w1
      w3 == IF build = "gl_vkpp"
            THEN [w2 EXCEPT !.glBuf = @ \ {tex.oglId}]
            ELSE [w2 EXCEPT !.glTex = @ \ {tex.oglId}]
  IN [w |-> glDeleteMemoryObjectsEXT(w3, tex.memoryObject),
      r |-> [tex EXCEPT !.alloc = 0, !.image = 0, !.fd = NoFd]]

\* the memory-object ids held by the two structs
Holders(id) ==
  (IF m_bufferVk.memoryObject = id THEN {"buffer"} ELSE {}) \cup
  (IF m_textureTarget.memoryObject = id THEN {"texture"} ELSE {})
HeldIds == {m_bufferVk.memoryObject, m_textureTarget.memoryObject} \ {0}

\* main loop bookkeeping: no call made yet in this iteration
NoIteration == [zero |-> FALSE, animate |-> 0, refresh |-> 0, swap |-> 0]

\* glfwGetWindowSize(window, &w, &h); if(w == 0 || h == 0) continue;
StartIteration_NoZeroCheck(w, h) == "animate"

StartIteration(w, h) == IF w = 0 \/ h = 0 THEN "loop" ELSE "animate"

\* no thread but the main thread uses the manager
NoCallers == [count0 |-> 0, thr |-> << >>]

\* ------------------------------------------------------------------- Init
Init ==
  /\ callers = NoCallers
  /\ platform \in Platforms
  /\ build \in Builds
  /\ caps \in SUBSET Caps
  /\ pc = "main" /\ ret = "loop" /\ frame = 0
  /\ newSize = <<InitialSize, InitialSize>>
  /\ m_bufferVk = DefaultBuffer
  /\ m_textureTarget = DefaultTexture
  /\ m_importedMemoryObjects = EmptyMap
  /\ m_refCounts = EmptyMap
  /\ m_win32Handles = EmptyMap
  /\ glMemoryObjects = {} /\ glBuffers = {} /\ glTextures = {}
  /\ vkBlocks = [d \in DeviceMems |-> 0]
  /\ vkImages = {} /\ nextImage = 1
  /\ vkExportable = [d \in DeviceMems |-> FALSE] /\ plainExports = 0
  /\ nextHandle = 1
  /\ importCalls = [h \in Handles |-> 0]
  /\ closeCalls = [h \in Handles |-> 0]
  /\ m_semaphores = [created |-> 0, destroyed |-> 0, exportable |-> FALSE,
                      vk |-> {}, gl |-> {}]
  /\ semReady = 0 /\ semComplete = 0
  /\ m_fence = FALSE
  /\ m_descriptorSet = 0
  /\ m_commandBuffer = [image |-> 0, extent |-> <<0, 0>>, groups |-> <<0, 0>>]
  /\ vkQueue = <<>> /\ vkRunning = <<>> /\ glQueue = <<>> /\ glRunning = <<>>
  /\ readyDone = 0 /\ completeDone = 0 /\ drawDone = 0
  /\ entryStats = [d \in DeviceMems |-> NoStats]
  /\ staleDeletes = 0 /\ clearCalls = 0 /\ forcedClear = FALSE
  /\ waitLog = <<>>
  /\ debugAbort = FALSE
  /\ iter = NoIteration

\* a wait for idle that returns at once
VkIdle_NoWait == TRUE

\* vkQueueWaitIdle(m_queue) / m_device.waitIdle() return
VkIdle == vkQueue = <<>> /\ vkRunning = <<>>

\* ------------------------------------------------------------ CPU thread
\* main(): vkctx.init(deviceInfo) with the external-memory and
\* external-semaphore extensions required; failure returns EXIT_FAILURE
ContextInit ==
  /\ pc = "main"
  /\ pc' = IF "VK_KHR_external" \in caps THEN "load_gl" ELSE "exit_failure"
  /\ UNCHANGED << cfgVars, ret, frame, newSize, resVars, worldVars, nextImage,
                  m_semaphores, gpuVars, m_descriptorSet, m_commandBuffer,
                  clearCalls, forcedClear, waitLog, debugAbort, iter >>

\* main(): load_GL, if(!has_GL_EXT_semaphore) return EXIT_FAILURE; then
\* example.setup, initUI and example.prepare
LoadGL ==
  /\ pc = "load_gl"
  /\ pc' = IF "GL_EXT_semaphore" \in caps THEN "prepare" ELSE "exit_failure"
  /\ UNCHANGED << cfgVars, ret, frame, newSize, resVars, worldVars, nextImage,
                  m_semaphores, gpuVars, m_descriptorSet, m_commandBuffer,
                  clearCalls, forcedClear, waitLog, debugAbort, iter >>

\* createBufferGL on a machine without GL_EXT_memory_object: the call goes
\* through an entry point the extension loader did not find.  The process
\* dies here, or the driver serves the call anyway (CreateBufferVK).
CreateBufferVKFault ==
  /\ pc = "prepare"
  /\ "GL_EXT_memory_object" \notin caps
  /\ pc' = "crashed"
  /\ UNCHANGED << cfgVars, ret, frame, newSize, resVars, worldVars, nextImage,
                  m_semaphores, gpuVars, m_descriptorSet, m_commandBuffer,
                  clearCalls, forcedClear, waitLog, debugAbort, iter >>

\* InteropExample::prepare, first part: createBufferVK() -> createBufferGL()
CreateBufferVK ==
  /\ pc = "prepare"
  /\ \E d \in AllocChoices(World), memoryObject \in GLNames \ glMemoryObjects :
       LET w0 == Allocate(World, d)
           c == createBufferGL(w0, [m_bufferVk EXCEPT !.alloc = d],
                               NewName(glBuffers), memoryObject)
       IN /\ SetWorld(c.w)
          /\ m_bufferVk' = c.r
  /\ pc' = "setup"
  /\ UNCHANGED << cfgVars, ret, frame, newSize, m_textureTarget, nextImage,
                  m_semaphores, gpuVars, m_descriptorSet, m_commandBuffer,
                  clearCalls, forcedClear, waitLog, debugAbort, iter >>

\* a semaphore create info without the export structure
SemaphoreCreateInfo_Plain == [export |-> FALSE]

\* VkSemaphoreCreateInfo sci{.pNext = &esci}: export requested at creation
SemaphoreCreateInfo == [export |-> TRUE]

\* SemaphoresVkGL::create / createSemaphores, the objects: glGenSemaphoresEXT
\* twice, vkCreateSemaphore twice
SemaphoresCreated(s) ==
  [s EXCEPT !.created = @ + 1,
            !.exportable = SemaphoreCreateInfo.export,
            !.gl = @ \cup {"glReady", "glComplete"},
            !.vk = @ \cup {"vkReady", "vkComplete"}]

\* SemaphoresVkGL::destroy (part_001) deletes the four objects; the destroy()
\* of the older compute.hpp destroys the two Vulkan semaphores only
SemaphoresDestroy(s) ==
  [s EXCEPT !.destroyed = @ + 1,
            !.vk = {},
            !.gl = IF Refcounted THEN {} ELSE @]

\* SemaphoresVkGL::create: two exportable semaphores, each exported and imported;
\* the exported handles are locals of create()
SemaphoresCreate(w) ==
  LET hReady == ExportedHandle(w)
      w1 == ExportHandle(w)
      hComplete == ExportedHandle(w1)
      w2 == ExportHandle(w1)
      w3 == [w2 EXCEPT !.plain = IF SemaphoreCreateInfo.export THEN @ ELSE @ + 2]
  IN ImportHandle(ImportHandle(w3, hReady), hComplete)

\* a fence created without VK_FENCE_CREATE_SIGNALED_BIT
FenceCreateInfo_Unsignaled == [signaled |-> FALSE]

\* VkFenceCreateInfo finfo{.flags = VK_FENCE_CREATE_SIGNALED_BIT}
FenceCreateInfo == [signaled |-> TRUE]

\* ComputeImageVk::setup, then prepare() goes on to update({1024, 1024})
Setup ==
  /\ pc = "setup"
  /\ SetWorld(SemaphoresCreate(World))
  /\ m_semaphores' = SemaphoresCreated(m_semaphores)
  /\ m_fence' = (~Earliest /\ FenceCreateInfo.signaled)
  /\ newSize' = IF Earliest THEN <<EarliestSize, EarliestSize>>
                 ELSE <<InitialSize, InitialSize>>
  /\ pc' = "upd_destroy" /\ ret' = "loop"
  /\ UNCHANGED << cfgVars, frame, resVars, nextImage, semReady, semComplete,
                  vkQueue, vkRunning, glQueue, glRunning, readyDone, completeDone,
                  drawDone, m_descriptorSet, m_commandBuffer,
                  clearCalls, forcedClear, waitLog, debugAbort, iter >>

\* m_textureTarget.destroy(*m_allocator)
TextureDestroy(w, tex, memIt) ==
  IF Refcounted THEN TextureDestroy_refcount(w, tex, memIt)
  ELSE TextureDestroy_handles(w, tex)

\* updateDescriptors(): the image view the storage-image binding names
updateDescriptors(tex) == tex.image

\* update() that does not destroy the old texture first
update_NoDestroy(w, tex, extent, img, d, memoryObject, memIt) ==
  LET w1 == [Allocate(w, d) EXCEPT !.images = @ \cup {img}]
      c == createTextureGL(w1, [DefaultTexture EXCEPT !.alloc = d, !.image = img,
                                                      !.extent = extent],
                           NewName(w1.glTex), memoryObject)
  IN [w |-> c.w, r |-> c.r, desc |-> updateDescriptors(c.r)]

\* ComputeImageVk::update(extent) as one call: destroy the texture, create
\* image `img` on device memory `d`, import it (a new memory object gets the
\* name `memoryObject`), write the descriptor.  The actions below are its
\* four statements.
update(w, tex, extent, img, d, memoryObject, memIt) ==
  LET t == TextureDestroy(w, tex, memIt)
      w1 == [Allocate(t.w, d) EXCEPT !.images = @ \cup {img}]
      c == createTextureGL(w1, [DefaultTexture EXCEPT !.alloc = d, !.image = img,
                                                      !.extent = extent],
                           NewName(w1.glTex), memoryObject)
  IN [w |-> c.w, r |-> c.r, desc |-> updateDescriptors(c.r)]

\* the choices open to update(): where the allocator puts the image, which
\* name OpenGL gives a new memory object, which map entry the release erases
UpdateChoices(w, tex) ==
  UNION { LET t == TextureDestroy(w, tex, memIt) IN
          { [d |-> d, memoryObject |-> memoryObject, memIt |-> memIt] :
              d \in AllocChoices(t.w), memoryObject \in GLNames \ t.w.glMem }
          : memIt \in FirstMatch(w, tex.memoryObject) }

\* update(), first statement
UpdateDestroy ==
  /\ pc = "upd_destroy"
  /\ \E memIt \in FirstMatch(World, m_textureTarget.memoryObject) :
       LET t == TextureDestroy(World, m_textureTarget, memIt) IN
       /\ SetWorld(t.w)
       /\ m_textureTarget' = t.r
  /\ pc' = "upd_prepare"
  /\ UNCHANGED << cfgVars, ret, frame, newSize, m_bufferVk, nextImage, m_semaphores,
                  gpuVars, m_descriptorSet, m_commandBuffer,
                  clearCalls, forcedClear, waitLog, debugAbort, iter >>

\* m_textureTarget = prepareTextureTarget(...): a new exportable image; the
\* single-time layout transition is submitted and waited for
PrepareTextureTarget ==
  /\ pc = "upd_prepare"
  /\ VkIdle
  /\ \E d \in AllocChoices(World) :
       /\ SetWorld([Allocate(World, d) EXCEPT !.images = @ \cup {nextImage}])
       /\ m_textureTarget' = [DefaultTexture EXCEPT !.alloc = d, !.image = nextImage,
                                                    !.extent = newSize]
  /\ nextImage' = nextImage + 1
  /\ pc' = "upd_createGL"
  /\ UNCHANGED << cfgVars, ret, frame, newSize, m_bufferVk,
                  m_semaphores, gpuVars, m_descriptorSet, m_commandBuffer,
                  clearCalls, forcedClear, waitLog, debugAbort, iter >>

\* createTextureGL(*m_allocator, m_textureTarget, ...)
CreateTextureGL ==
  /\ pc = "upd_createGL"
  /\ \E memoryObject \in GLNames \ glMemoryObjects :
       LET c == createTextureGL(World, m_textureTarget, NewName(glTextures),
                                memoryObject) IN
       /\ SetWorld(c.w)
       /\ m_textureTarget' = c.r
  /\ pc' = "upd_desc"
  /\ UNCHANGED << cfgVars, ret, frame, newSize, m_bufferVk, nextImage, m_semaphores,
                  gpuVars, m_descriptorSet, m_commandBuffer,
                  clearCalls, forcedClear, waitLog, debugAbort, iter >>

\* descriptors written for the first texture only
UpdateDescriptors_Once ==
  /\ pc = "upd_desc"
  /\ m_descriptorSet' = IF m_descriptorSet = 0 THEN m_textureTarget.image
                        ELSE m_descriptorSet
  /\ pc' = ret
  /\ UNCHANGED << cfgVars, ret, frame, newSize, resVars, worldVars, nextImage,
                  m_semaphores, gpuVars, m_commandBuffer,
                  clearCalls, forcedClear, waitLog, debugAbort, iter >>

\* updateDescriptors(): the storage-image binding now names the new image view
UpdateDescriptors ==
  /\ pc = "upd_desc"
  /\ m_descriptorSet' = updateDescriptors(m_textureTarget)
  /\ pc' = ret
  /\ UNCHANGED << cfgVars, ret, frame, newSize, resVars, worldVars, nextImage,
                  m_semaphores, gpuVars, m_commandBuffer,
                  clearCalls, forcedClear, waitLog, debugAbort, iter >>

\* main loop body up to example.animate(): poll, read the window size, skip
\* the iteration of a zero-sized (minimised) window
PollEvents ==
  /\ pc = "loop"
  /\ \E w \in WindowSizes, h \in WindowSizes :
       /\ StartIteration(w, h) # "loop" => frame < MaxFrames
       /\ pc' = StartIteration(w, h)
       /\ iter' = [NoIteration EXCEPT !.zero = (w = 0 \/ h = 0)]
  /\ UNCHANGED << cfgVars, ret, frame, newSize, resVars, worldVars, nextImage,
                  m_semaphores, gpuVars, m_descriptorSet, m_commandBuffer,
                  clearCalls, forcedClear, waitLog, debugAbort >>

\* InteropExample::animate: the vertex positions are written into the mapped
\* Vulkan buffer
Animate ==
  /\ pc = "animate"
  /\ iter' = [iter EXCEPT !.animate = @ + 1]
  /\ pc' = "refresh"
  /\ UNCHANGED << cfgVars, ret, frame, newSize, resVars, worldVars, nextImage,
                  m_semaphores, gpuVars, m_descriptorSet, m_commandBuffer,
                  clearCalls, forcedClear, waitLog, debugAbort >>

\* glfwSwapBuffers(window) ends the iteration
SwapBuffers ==
  /\ pc = "swap"
  /\ iter' = [iter EXCEPT !.swap = @ + 1]
  /\ pc' = "loop"
  /\ UNCHANGED << cfgVars, ret, frame, newSize, resVars, worldVars, nextImage,
                  m_semaphores, gpuVars, m_descriptorSet, m_commandBuffer,
                  clearCalls, forcedClear, waitLog, debugAbort >>

\* main loop: glfwWindowShouldClose ends it
CloseWindow ==
  /\ pc = "loop"
  /\ pc' = "destroy"
  /\ UNCHANGED << cfgVars, ret, frame, newSize, resVars, worldVars, nextImage,
                  m_semaphores, gpuVars, m_descriptorSet, m_commandBuffer,
                  clearCalls, forcedClear, waitLog, debugAbort, iter >>

\* onWindowRefresh up to glViewport: the sliders give the size; a changed size
\* recreates the interop texture
BeginFrame ==
  /\ pc = "refresh"
  /\ frame' = frame + 1
  /\ iter' = [iter EXCEPT !.refresh = @ + 1]
  /\ \E size \in Extents :
       IF size # m_textureTarget.extent /\ ~Earliest
       THEN pc' = "upd_destroy" /\ ret' = "signal" /\ newSize' = size
       ELSE pc' = "signal" /\ UNCHANGED << ret, newSize >>
  /\ UNCHANGED << cfgVars, resVars, worldVars, nextImage,
                  m_semaphores, gpuVars, m_descriptorSet, m_commandBuffer,
                  clearCalls, forcedClear, waitLog, debugAbort >>

\* glSignalSemaphoreEXT(glReady, ..., &oglId, &dstLayout): queued on the GL side
GlSignalReady ==
  /\ pc = "signal"
  /\ glQueue' = Append(glQueue, [op |-> "signal", frame |-> frame,
                                 tex |-> m_textureTarget.oglId])
  /\ waitLog' = <<>>
  /\ pc' = "build"
  /\ UNCHANGED << cfgVars, ret, frame, newSize, resVars, worldVars, nextImage,
                  m_semaphores, semReady, semComplete, m_fence, vkQueue, vkRunning,
                  glRunning, readyDone, completeDone, drawDone,
                  m_descriptorSet, m_commandBuffer, clearCalls, forcedClear, debugAbort, iter >>

\* a dispatch of the whole extent divided by 16, rounded down
GroupCount_Floor(earliest, size) == size \div 16

\* the group count of one axis: (size + 15) / 16, and size / 16 in the first
\* version (uint32_t arithmetic; size + 15 is far below 2^32 for the extents
\* of the slider)
GroupCount(earliest, size) ==
  IF earliest THEN size \div 16 ELSE (size + 15) \div 16

\* vkCmdDispatch(m_commandBuffer, groupCountX, groupCountY, 1)
Dispatch(earliest, extent) ==
  << GroupCount(earliest, extent[1]), GroupCount(earliest, extent[2]) >>

\* gl_GlobalInvocationID = gl_WorkGroupID * gl_WorkGroupSize + gl_LocalInvocationID
GlobalInvocationID(group, local) == group * LocalSize + local

\* the ids the invocations of n workgroups have along one axis
AxisInvocations(n) == (0..(n - 1)) \X (0..(LocalSize - 1))
AxisIds(n) == {GlobalInvocationID(i[1], i[2]) : i \in AxisInvocations(n)}

\* shader.comp.glsl:39: the invocation returns before its imageStore
ShaderReturns(id, iResolution) ==
  id[1] >= iResolution[1] \/ id[2] >= iResolution[2]

\* buildCommandBuffers(): vkWaitForFences blocks, vkResetFences, record; the
\* first version (compute.hpp:852) begins the command buffer at once
BuildCommandBuffers ==
  /\ pc = "build"
  /\ ~Earliest => m_fence
  /\ m_fence' = FALSE
  /\ waitLog' = IF Earliest THEN waitLog ELSE Append(waitLog, "fence")
  /\ m_commandBuffer' = [image |-> m_descriptorSet,
                          extent |-> m_textureTarget.extent,
                          groups |-> Dispatch(Earliest, m_textureTarget.extent)]
  /\ pc' = "submit"
  /\ UNCHANGED << cfgVars, ret, frame, newSize, resVars, worldVars, nextImage,
                  m_semaphores, semReady, semComplete, vkQueue, vkRunning,
                  glQueue, glRunning, readyDone, completeDone, drawDone,
                  m_descriptorSet, clearCalls, forcedClear, debugAbort, iter >>

\* a submission that waits on no semaphore
ComputeSubmitInfo_NoWait ==
  [wait |-> {}, signal |-> {"vkComplete"}, frame |-> frame,
   image |-> m_commandBuffer.image]

\* VkSubmitInfo of submit(): wait vkReady, run the command buffer, signal vkComplete
ComputeSubmitInfo ==
  [wait |-> {"vkReady"}, signal |-> {"vkComplete"}, frame |-> frame,
   image |-> m_commandBuffer.image]

\* submit(), vkQueueSubmit(m_queue, 1, &computeSubmitInfo, m_fence)
QueueSubmit ==
  /\ pc = "submit"
  /\ vkQueue' = Append(vkQueue, ComputeSubmitInfo)
  /\ pc' = "waitIdle"
  /\ UNCHANGED << cfgVars, ret, frame, newSize, resVars, worldVars, nextImage,
                  m_semaphores, semReady, semComplete, m_fence, vkRunning,
                  glQueue, glRunning, readyDone, completeDone, drawDone,
                  m_descriptorSet, m_commandBuffer,
                  clearCalls, forcedClear, waitLog, debugAbort, iter >>

\* submit() returns right after vkQueueSubmit
SubmitBlocking_None == <<>>

\* the blocking calls submit() makes after vkQueueSubmit
SubmitBlocking == IF Earliest THEN <<>> ELSE <<"queueIdle">>

\* submit(), vkQueueWaitIdle(m_queue) returns
QueueWaitIdle ==
  /\ pc = "waitIdle"
  /\ SubmitBlocking # <<>> => VkIdle
  /\ waitLog' = waitLog \o SubmitBlocking
  /\ pc' = "draw"
  /\ UNCHANGED << cfgVars, ret, frame, newSize, resVars, worldVars, nextImage,
                  m_semaphores, gpuVars, m_descriptorSet, m_commandBuffer,
                  clearCalls, forcedClear, debugAbort, iter >>

\* the draw without glWaitSemaphoreEXT before it
GlWaitAndDraw_NoWait ==
  /\ pc = "draw"
  /\ glQueue' = Append(glQueue, [op |-> "draw", frame |-> frame,
                                 tex |-> m_textureTarget.oglId])
  /\ pc' = "swap"
  /\ UNCHANGED << cfgVars, ret, frame, newSize, resVars, worldVars, nextImage,
                  m_semaphores, semReady, semComplete, m_fence, vkQueue, vkRunning,
                  glRunning, readyDone, completeDone, drawDone,
                  m_descriptorSet, m_commandBuffer,
                  clearCalls, forcedClear, waitLog, debugAbort, iter >>

\* glWaitSemaphoreEXT(glComplete, ...) and the draw that samples the texture
GlWaitAndDraw ==
  /\ pc = "draw"
  /\ glQueue' = glQueue \o
       << [op |-> "wait", frame |-> frame, tex |-> m_textureTarget.oglId],
          [op |-> "draw", frame |-> frame, tex |-> m_textureTarget.oglId] >>
  /\ pc' = "swap"
  /\ UNCHANGED << cfgVars, ret, frame, newSize, resVars, worldVars, nextImage,
                  m_semaphores, semReady, semComplete, m_fence, vkQueue, vkRunning,
                  glRunning, readyDone, completeDone, drawDone,
                  m_descriptorSet, m_commandBuffer,
                  clearCalls, forcedClear, waitLog, debugAbort, iter >>

\* m_bufferVk.destroy(m_alloc)
BufferDestroy(w, buf, memIt) ==
  IF Refcounted THEN BufferDestroy_refcount(w, buf, memIt)
  ELSE BufferDestroy_handles(w, buf)

\* InteropExample::destroy: m_device.waitIdle(); m_bufferVk.destroy(m_alloc)
DestroyBuffer ==
  /\ pc = "destroy"
  /\ VkIdle
  /\ \E memIt \in FirstMatch(World, m_bufferVk.memoryObject) :
       LET b == BufferDestroy(World, m_bufferVk, memIt) IN
       /\ SetWorld(b.w)
       /\ m_bufferVk' = b.r
  /\ pc' = "compute_destroy"
  /\ UNCHANGED << cfgVars, ret, frame, newSize, m_textureTarget, nextImage,
                  m_semaphores, gpuVars, m_descriptorSet, m_commandBuffer,
                  clearCalls, forcedClear, waitLog, debugAbort, iter >>

\* ComputeImageVk::destroy: vkQueueWaitIdle, m_textureTarget.destroy,
\* m_semaphores.destroy, vkDestroyFence, ...
ComputeDestroy ==
  /\ pc = "compute_destroy"
  /\ VkIdle
  /\ \E memIt \in FirstMatch(World, m_textureTarget.memoryObject) :
       LET t == TextureDestroy(World, m_textureTarget, memIt) IN
       /\ SetWorld(t.w)
       /\ m_textureTarget' = t.r
  /\ m_semaphores' = SemaphoresDestroy(m_semaphores)
  /\ m_descriptorSet' = 0
  /\ pc' = "done"
  /\ UNCHANGED << cfgVars, ret, frame, newSize, m_bufferVk, nextImage,
                  gpuVars, m_commandBuffer,
                  clearCalls, forcedClear, waitLog, debugAbort, iter >>

\* clearMemoryObjectManager(): may be called between frames, before or after
\* the teardown
ClearMemoryObjectManager ==
  /\ pc \in {"loop", "destroy", "done"}
  /\ clearCalls < MaxClears
  /\ clearCalls' = clearCalls + 1
  /\ forcedClear' = (forcedClear \/ HeldIds # {})
  /\ SetWorld(clear(World))
  /\ UNCHANGED << cfgVars, pc, ret, frame, newSize, resVars, nextImage,
                  m_semaphores, gpuVars, m_descriptorSet, m_commandBuffer,
                  waitLog, debugAbort, iter >>

\* process exit: ~MemoryObjectManager() asserts that the cache is empty
Exit ==
  /\ pc = "done"
  /\ debugAbort' = (DOMAIN m_importedMemoryObjects # {})
  /\ pc' = "exited"
  /\ UNCHANGED << cfgVars, ret, frame, newSize, resVars, worldVars, nextImage,
                  m_semaphores, gpuVars, m_descriptorSet, m_commandBuffer,
                  clearCalls, forcedClear, waitLog, iter >>

\* ------------------------------------------------------- Vulkan queue (GPU)
\* the head batch starts once its wait semaphores are signalled
VkStart ==
  /\ vkQueue # <<>> /\ vkRunning = <<>>
  /\ "vkReady" \in Head(vkQueue).wait => semReady >= 1
  /\ semReady' = IF "vkReady" \in Head(vkQueue).wait THEN semReady - 1 ELSE semReady
  /\ vkRunning' = << Head(vkQueue) >>
  /\ vkQueue' = Tail(vkQueue)
  /\ UNCHANGED << cfgVars, pc, ret, frame, newSize, resVars, worldVars, nextImage,
                  m_semaphores, semComplete, m_fence, glQueue, glRunning,
                  readyDone, completeDone, drawDone, m_descriptorSet, m_commandBuffer,
                  clearCalls, forcedClear, waitLog, debugAbort, iter >>

\* the compute pass has written the image: signal vkComplete and the fence
VkFinish ==
  /\ vkRunning # <<>>
  /\ semComplete' = IF semComplete < 2 THEN semComplete + 1 ELSE semComplete
  /\ m_fence' = ~Earliest
  /\ completeDone' = vkRunning[1].frame
  /\ vkRunning' = <<>>
  /\ UNCHANGED << cfgVars, pc, ret, frame, newSize, resVars, worldVars, nextImage,
                  m_semaphores, semReady, vkQueue, glQueue, glRunning,
                  readyDone, drawDone, m_descriptorSet, m_commandBuffer,
                  clearCalls, forcedClear, waitLog, debugAbort, iter >>

\* ------------------------------------------------------- OpenGL queue (GPU)
GlSignal ==
  /\ glQueue # <<>> /\ glRunning = <<>>
  /\ Head(glQueue).op = "signal"
  /\ semReady' = IF semReady < 2 THEN semReady + 1 ELSE semReady
  /\ readyDone' = Head(glQueue).frame
  /\ glQueue' = Tail(glQueue)
  /\ UNCHANGED << cfgVars, pc, ret, frame, newSize, resVars, worldVars, nextImage,
                  m_semaphores, semComplete, m_fence, vkQueue, vkRunning, glRunning,
                  completeDone, drawDone, m_descriptorSet, m_commandBuffer,
                  clearCalls, forcedClear, waitLog, debugAbort, iter >>

GlWait ==
  /\ glQueue # <<>> /\ glRunning = <<>>
  /\ Head(glQueue).op = "wait"
  /\ semComplete >= 1
  /\ semComplete' = semComplete - 1
  /\ glQueue' = Tail(glQueue)
  /\ UNCHANGED << cfgVars, pc, ret, frame, newSize, resVars, worldVars, nextImage,
                  m_semaphores, semReady, m_fence, vkQueue, vkRunning, glRunning,
                  readyDone, completeDone, drawDone, m_descriptorSet, m_commandBuffer,
                  clearCalls, forcedClear, waitLog, debugAbort, iter >>

GlDrawStart ==
  /\ glQueue # <<>> /\ glRunning = <<>>
  /\ Head(glQueue).op = "draw"
  /\ glRunning' = << Head(glQueue) >>
  /\ glQueue' = Tail(glQueue)
  /\ UNCHANGED << cfgVars, pc, ret, frame, newSize, resVars, worldVars, nextImage,
                  m_semaphores, semReady, semComplete, m_fence, vkQueue, vkRunning,
                  readyDone, completeDone, drawDone, m_descriptorSet, m_commandBuffer,
                  clearCalls, forcedClear, waitLog, debugAbort, iter >>

GlDrawFinish ==
  /\ glRunning # <<>>
  /\ drawDone' = glRunning[1].frame
  /\ glRunning' = <<>>
  /\ UNCHANGED << cfgVars, pc, ret, frame, newSize, resVars, worldVars, nextImage,
                  m_semaphores, semReady, semComplete, m_fence, vkQueue, vkRunning,
                  glQueue, readyDone, completeDone, m_descriptorSet, m_commandBuffer,
                  clearCalls, forcedClear, waitLog, debugAbort, iter >>

\* ------------------------------------------------------------------- Spec
Next ==
  \/ ContextInit
  \/ LoadGL
  \/ CreateBufferVKFault
  \/ CreateBufferVK
  \/ Setup
  \/ UpdateDestroy
  \/ PrepareTextureTarget
  \/ CreateTextureGL
  \/ UpdateDescriptors
  \/ CloseWindow
  \/ PollEvents
  \/ Animate
  \/ BeginFrame
  \/ SwapBuffers
  \/ GlSignalReady
  \/ BuildCommandBuffers
  \/ QueueSubmit
  \/ QueueWaitIdle
  \/ GlWaitAndDraw
  \/ DestroyBuffer
  \/ ComputeDestroy
  \/ ClearMemoryObjectManager
  \/ Exit
  \/ VkStart
  \/ VkFinish
  \/ GlSignal
  \/ GlWait
  \/ GlDrawStart
  \/ GlDrawFinish

Spec == Init /\ [][Next]_vars

\* the statements of onWindowRefresh (update() included) and of destroy(): the
\* one CPU thread runs them in order and stops only inside a blocking call
CpuStep ==
  \/ BeginFrame
  \/ UpdateDestroy
  \/ PrepareTextureTarget
  \/ CreateTextureGL
  \/ UpdateDescriptors
  \/ GlSignalReady
  \/ BuildCommandBuffers
  \/ QueueSubmit
  \/ QueueWaitIdle
  \/ GlWaitAndDraw
  \/ DestroyBuffer
  \/ ComputeDestroy

\* both GPU queues execute what has been submitted to them
GpuFair ==
  /\ WF_vars(VkStart) /\ WF_vars(VkFinish)
  /\ WF_vars(GlSignal) /\ WF_vars(GlWait)
  /\ WF_vars(GlDrawStart) /\ WF_vars(GlDrawFinish)

\* the program on a machine with every capability, as main() runs it: nothing
\* in src/ calls clearMemoryObjectManager()
FairInit == Init /\ caps = Caps

FairNext ==
  \/ ContextInit
  \/ LoadGL
  \/ CreateBufferVK
  \/ Setup
  \/ PollEvents
  \/ Animate
  \/ SwapBuffers
  \/ CloseWindow
  \/ Exit
  \/ CpuStep
  \/ VkStart
  \/ VkFinish
  \/ GlSignal
  \/ GlWait
  \/ GlDrawStart
  \/ GlDrawFinish

FairSpec == FairInit /\ [][FairNext]_vars /\ WF_vars(CpuStep) /\ GpuFair

\* --------------------------------------- concurrent callers of the manager
\* Two threads call acquireMemoryObject / releaseMemoryObject on the entry
\* of one device memory.  A call first looks the entry up (find), then
\* updates the std::atomic_uint64_t count.
Threads == {1, 2}
CallerOps == {"acquire", "release"}
SharedMemory == 1       \* the VkDeviceMemory both threads pass
SharedId == 1           \* the memory object cached for it

\* the call sequences of one thread
RECURSIVE SeqsUpTo(_)
SeqsUpTo(n) ==
  IF n = 0 THEN {<< >>}
  ELSE LET shorter == SeqsUpTo(n - 1) IN
       shorter \cup {Append(q, op) : q \in shorter, op \in CallerOps}

\* the lowest value the count can take while a thread runs `ops`, relative
\* to the count at its start
RECURSIVE LowestDrop(_)
LowestDrop(ops) ==
  IF ops = << >> THEN 0
  ELSE LET rest == LowestDrop(Tail(ops))
           step == IF Head(ops) = "acquire" THEN 1 ELSE -1
       IN IF step + rest < 0 THEN step + rest
          ELSE IF step < 0 THEN step ELSE 0

\* a read-modify-write made of a plain load and a plain store
fetch_Torn(loaded, current, delta) == loaded + delta

\* std::atomic::fetch_add / fetch_sub: the new value comes from the value the
\* atomic holds at that instant (the 64-bit count is never below 1 here and
\* never above the initial count plus the calls made, so it cannot wrap)
fetch(loaded, current, delta) == current + delta

IdleThread(ops) == [todo |-> ops, found |-> FALSE, loaded |-> 0,
                    acquires |-> 0, releases |-> 0]

\* the manager holds one entry with count0 references; the threads' calls
\* never take the count below 1
ConcInit ==
  /\ platform \in Platforms /\ build = "gl_vk_refcount" /\ caps = Caps
  /\ \E count0 \in 1..(2 * MaxThreadOps + 1), ops1, ops2 \in SeqsUpTo(MaxThreadOps) :
       /\ ops1 # << >> /\ ops2 # << >>
       /\ count0 + LowestDrop(ops1) + LowestDrop(ops2) >= 1
       /\ callers = [count0 |-> count0,
                     thr |-> << IdleThread(ops1), IdleThread(ops2) >>]
       /\ m_refCounts = Put(EmptyMap, SharedId, count0)
  /\ m_importedMemoryObjects = Put(EmptyMap, SharedMemory, SharedId)
  /\ m_win32Handles = IF platform = "WIN32" THEN Put(EmptyMap, SharedId, 1)
                      ELSE EmptyMap
  /\ glMemoryObjects = {SharedId} /\ glBuffers = {} /\ glTextures = {}
  /\ pc = "loop" /\ ret = "loop" /\ frame = 0
  /\ newSize = <<InitialSize, InitialSize>>
  /\ m_bufferVk = DefaultBuffer
  /\ m_textureTarget = DefaultTexture
  /\ vkBlocks = [d \in DeviceMems |-> IF d = SharedMemory THEN 1 ELSE 0]
  /\ vkImages = {} /\ nextImage = 1
  /\ vkExportable = [d \in DeviceMems |-> d = SharedMemory] /\ plainExports = 0
  /\ nextHandle = 2
  /\ importCalls = [h \in Handles |-> IF h = 1 THEN 1 ELSE 0]
  /\ closeCalls = [h \in Handles |-> 0]
  /\ m_semaphores = [created |-> 0, destroyed |-> 0, exportable |-> FALSE,
                      vk |-> {}, gl |-> {}]
  /\ semReady = 0 /\ semComplete = 0
  /\ m_fence = FALSE
  /\ m_descriptorSet = 0
  /\ m_commandBuffer = [image |-> 0, extent |-> <<0, 0>>, groups |-> <<0, 0>>]
  /\ vkQueue = <<>> /\ vkRunning = <<>> /\ glQueue = <<>> /\ glRunning = <<>>
  /\ readyDone = 0 /\ completeDone = 0 /\ drawDone = 0
  /\ entryStats = [d \in DeviceMems |->
                     IF d = SharedMemory
                     THEN [acq |-> 1, rel |-> 0, del |-> 0, exp |-> 1]
                     ELSE NoStats]
  /\ staleDeletes = 0 /\ clearCalls = 0 /\ forcedClear = FALSE
  /\ waitLog = <<>>
  /\ debugAbort = FALSE
  /\ iter = NoIteration

\* everything but the manager's count and the threads
ConcUnchanged ==
  UNCHANGED << platform, build, caps, pc, ret, frame, newSize, resVars,
               m_importedMemoryObjects, m_win32Handles,
               glMemoryObjects, glBuffers, glTextures, vkBlocks, vkImages,
               vkExportable, plainExports, nextHandle, importCalls, closeCalls,
               entryStats, staleDeletes, nextImage, m_semaphores, gpuVars,
               m_descriptorSet, m_commandBuffer,
               clearCalls, forcedClear, waitLog, debugAbort, iter >>

\* m_importedMemoryObjects.find / m_refCounts.find: the thread has the
\* iterator of the entry (an unknown id ends the call)
CallerFind(t) ==
  /\ t \in DOMAIN callers.thr
  /\ callers.thr[t].todo # << >> /\ ~callers.thr[t].found
  /\ IF SharedId \in DOMAIN m_refCounts
     THEN callers' = [callers EXCEPT !.thr[t].found = TRUE,
                                     !.thr[t].loaded = m_refCounts[SharedId]]
     ELSE callers' = [callers EXCEPT !.thr[t].todo = Tail(@)]
  /\ UNCHANGED m_refCounts
  /\ ConcUnchanged

\* refIt->second.fetch_add(1) / it->second.fetch_sub(1); a release leaves
\* the entry alone unless the new count is 0
CallerFetch(t) ==
  /\ t \in DOMAIN callers.thr
  /\ callers.thr[t].found
  /\ SharedId \in DOMAIN m_refCounts
  /\ LET op == Head(callers.thr[t].todo)
         new == fetch(callers.thr[t].loaded, m_refCounts[SharedId],
                      IF op = "acquire" THEN 1 ELSE -1)
     IN /\ m_refCounts' = IF op = "release" /\ new = 0
                          THEN Drop(m_refCounts, SharedId)
                          ELSE [m_refCounts EXCEPT ![SharedId] = new]
        /\ callers' = [callers EXCEPT
              !.thr[t].todo = Tail(@), !.thr[t].found = FALSE,
              !.thr[t].acquires = IF op = "acquire" THEN @ + 1 ELSE @,
              !.thr[t].releases = IF op = "release" THEN @ + 1 ELSE @]
  /\ ConcUnchanged

ConcNext == \E t \in Threads : CallerFind(t) \/ CallerFetch(t)

ConcSpec == ConcInit /\ [][ConcNext]_vars

TypeOK ==
  /\ caps \subseteq Caps
  /\ pc \in {"main", "load_gl", "exit_failure", "crashed",
             "prepare", "setup", "upd_destroy", "upd_prepare", "upd_createGL",
             "upd_desc", "loop", "animate", "refresh", "swap", "signal", "build", "submit", "waitIdle", "draw",
             "destroy", "compute_destroy", "done", "exited"}
  /\ frame \in 0..MaxFrames
  /\ nextHandle \in 1..(MaxHandle + 1)
  /\ DOMAIN m_refCounts \subseteq GLNames
  /\ DOMAIN m_importedMemoryObjects \subseteq DeviceMems
  /\ semReady \in 0..2 /\ semComplete \in 0..2
  /\ Len(vkQueue) <= 2 /\ Len(glQueue) <= 6

\* ================================================================ properties
Exported == 1..(nextHandle - 1)
RECURSIVE SumCounts(_, _)
SumCounts(f, S) ==
  IF S = {} THEN 0
  ELSE LET k == CHOOSE x \in S : TRUE IN f[k] + SumCounts(f, S \ {k})
TotalRefs == SumCounts(m_refCounts, DOMAIN m_refCounts)
LiveHolders == Cardinality({r \in {"buffer", "texture"} :
                 IF r = "buffer" THEN m_bufferVk.memoryObject # 0
                 ELSE m_textureTarget.memoryObject # 0})

\* C1: on POSIX every exported file descriptor has been handed to exactly one
\* import call and close() has never been called on any descriptor, in every
\* build and at every point of create / resize / destroy.
C1_FdConsumedOnce ==
  platform = "POSIX" =>
    \A h \in Handles :
      /\ closeCalls[h] = 0
      /\ importCalls[h] = IF h \in Exported THEN 1 ELSE 0

\* POSIX, handle-keeping header: buffer, semaphores and three textures were
\* created, the texture was resized and everything has been destroyed
C1_Witness ==
  /\ platform = "POSIX" /\ build = "gl_vk"
  /\ pc = "done" /\ nextImage >= 3 /\ nextHandle >= 6

\* state part: one export per cached device memory, count = acquires - releases
C2_CachedOnce ==
  Refcounted =>
    \A d \in DOMAIN m_importedMemoryObjects :
      /\ entryStats[d].exp = 1
      /\ m_importedMemoryObjects[d] \in DOMAIN m_refCounts
      /\ m_refCounts[m_importedMemoryObjects[d]] = entryStats[d].acq - entryStats[d].rel

\* step part: createTextureGL on a device memory that is cached
C2_HitStep ==
  ( /\ Refcounted
    /\ pc = "upd_createGL" /\ pc' = "upd_desc"
    /\ m_textureTarget.alloc \in DOMAIN m_importedMemoryObjects )
  => LET id == m_importedMemoryObjects[m_textureTarget.alloc] IN
     /\ m_textureTarget'.memoryObject = id
     /\ m_refCounts' = Bump(m_refCounts, id)
     /\ m_importedMemoryObjects' = m_importedMemoryObjects
     /\ nextHandle' = nextHandle
     /\ importCalls' = importCalls
     /\ glMemoryObjects' = glMemoryObjects

C3_Original ==
  Refcounted =>
    /\ \A id \in HeldIds :
         /\ id \in DOMAIN m_refCounts /\ m_refCounts[id] >= 1
         /\ id \in glMemoryObjects
    /\ staleDeletes = 0
    /\ \A d \in DeviceMems :
         /\ entryStats[d].del <= 1
         /\ entryStats[d].del = 1 => entryStats[d].rel = entryStats[d].acq

\* C3 amended: the same holds in every state reached without clear() having
\* run while a buffer or texture still held an id (clear() destroys every
\* memory object whatever its count).
C3_HeldWhileCounted == forcedClear \/ C3_Original

\* a shared entry went 2 -> 1 -> 0 and was destroyed once, no clear() involved
C3_Witness ==
  /\ Refcounted /\ ~forcedClear /\ pc = "done"
  /\ \E d \in DeviceMems :
       entryStats[d].acq >= 2 /\ entryStats[d].rel = entryStats[d].acq
       /\ entryStats[d].del = 1

C5_HandoffOrder ==
  /\ vkRunning # <<>> =>
       /\ readyDone >= vkRunning[1].frame
       /\ drawDone >= vkRunning[1].frame - 1
       /\ glRunning = <<>>
  /\ glRunning # <<>> =>
       /\ completeDone >= glRunning[1].frame
       /\ vkRunning = <<>>

\* the second frame's compute pass is writing, after the first frame was drawn
C5_Witness ==
  /\ vkRunning # <<>> /\ vkRunning[1].frame = 2 /\ drawDone = 1

\* C6 as stated: on WIN32 no handle is closed twice, CloseHandle is never
\* applied to a handle that was not retrieved, and when the program ends
\* every retrieved handle has been closed exactly once.
C6_Win32HandlesClosedOnce ==
  platform = "WIN32" =>
    /\ \A h \in Handles : closeCalls[h] <= 1
    /\ \A h \in Handles \ Exported : closeCalls[h] = 0
    /\ pc = "exited" => \A h \in Exported : closeCalls[h] = 1

\* a destroy() that passes releaseMemoryObject an id without an entry
C7_UnknownRelease ==
  /\ Refcounted
  /\ \/ /\ pc \in {"upd_destroy", "compute_destroy"} /\ pc' # pc
        /\ m_textureTarget.memoryObject # 0
        /\ m_textureTarget.memoryObject \notin DOMAIN m_refCounts
     \/ /\ pc = "destroy" /\ pc' # pc
        /\ m_bufferVk.memoryObject # 0
        /\ m_bufferVk.memoryObject \notin DOMAIN m_refCounts

\* C7 as stated: a releaseMemoryObject call for a non-zero id without an
\* entry trips a debug assertion and leaves the cache as it was.
C7_ReleaseOfUnknownIdAborts ==
  [][C7_UnknownRelease =>
       /\ debugAbort'
       /\ m_importedMemoryObjects' = m_importedMemoryObjects
       /\ m_refCounts' = m_refCounts]_vars

C9_TeardownStep ==
  /\ Refcounted
  /\ pc = "upd_destroy" /\ pc' = "upd_prepare"
  /\ m_textureTarget.memoryObject \in DOMAIN m_refCounts

\* what that statement leaves behind
C9_TornDown ==
  /\ m_textureTarget.oglId \notin glTextures'
  /\ m_textureTarget.image \notin vkImages'
  /\ vkBlocks'[m_textureTarget.alloc] = vkBlocks[m_textureTarget.alloc] - 1
  /\ m_textureTarget'.memoryObject = 0
  /\ TotalRefs' = TotalRefs - 1

\* the replacement is allocated only with the old texture gone
C9_AllocStep ==
  (Refcounted /\ vkImages' # vkImages /\ vkImages' \ vkImages # {}) =>
    /\ vkImages = {}
    /\ m_textureTarget.memoryObject = 0
    /\ m_textureTarget.oglId \notin glTextures

\* C9 as stated: update() deletes the old texture, releases its reference,
\* removes its cache entry and destroys image and allocation before the
\* replacement is allocated; old and new texture never both hold a reference.
C9_EntryRemoved ==
  /\ [](Refcounted => TotalRefs <= LiveHolders)
  /\ [][C9_AllocStep]_vars
  /\ [][C9_TeardownStep =>
          /\ C9_TornDown
          /\ m_textureTarget.memoryObject \notin DOMAIN m_refCounts'
          /\ m_textureTarget.alloc \notin DOMAIN m_importedMemoryObjects']_vars

\* C9 amended: as stated, except that the entry is removed only when the
\* texture held the last reference; when the vertex buffer is backed by the
\* same device memory the entry stays with the buffer's reference alone.
C9_TeardownBeforeRebuild ==
  /\ [](Refcounted => TotalRefs <= LiveHolders)
  /\ [][C9_AllocStep]_vars
  /\ [][C9_TeardownStep =>
          /\ C9_TornDown
          /\ IF m_refCounts[m_textureTarget.memoryObject] = 1
             THEN /\ m_textureTarget.memoryObject \notin DOMAIN m_refCounts'
                  /\ m_textureTarget.alloc \notin DOMAIN m_importedMemoryObjects'
             ELSE /\ m_refCounts'[m_textureTarget.memoryObject] = 1
                  /\ m_bufferVk.alloc = m_textureTarget.alloc]_vars

\* a resize in the second frame has torn the old texture down and allocated
\* the replacement, whose memory object is not acquired yet
C9_Witness ==
  /\ Refcounted /\ ~forcedClear
  /\ pc = "upd_createGL" /\ ret = "signal" /\ frame = 2
  /\ m_textureTarget.memoryObject = 0 /\ Cardinality(vkImages) = 1
  /\ TotalRefs = 1

\* update() called from onWindowRefresh returns
C10_ResizeDone == Refcounted /\ pc = "upd_desc" /\ pc' = "signal"

\* C10 as stated: after every resize the cache holds one entry, the new
\* image's device memory.
C10_CacheSizeOne ==
  [][C10_ResizeDone =>
       DOMAIN m_importedMemoryObjects' = {m_textureTarget'.alloc}]_vars

\* C10 amended: after every resize the cache holds the new image's device
\* memory and, when the vertex buffer's entry is cached under another device
\* memory, that entry: one or two entries, none of a previous image, and no
\* reference of a previous image is left in the counts.
C10_NoStaleEntry ==
  [][C10_ResizeDone =>
       /\ m_textureTarget'.alloc \in DOMAIN m_importedMemoryObjects'
       /\ m_importedMemoryObjects'[m_textureTarget'.alloc] = m_textureTarget'.memoryObject
       /\ DOMAIN m_importedMemoryObjects' \subseteq {m_textureTarget'.alloc, m_bufferVk'.alloc}
       /\ TotalRefs' <= LiveHolders'
       /\ ~forcedClear' => TotalRefs' = 2]_vars

\* frame 1 ran at 1x1, frame 2 resized to the maximum size: three images were
\* made and the cache holds the buffer's and the new image's entries
C10_Witness ==
  /\ Refcounted /\ ~forcedClear
  /\ pc = "signal" /\ ret = "signal" /\ frame = 2
  /\ m_commandBuffer.extent = <<MinTextureSize, MinTextureSize>>
  /\ m_textureTarget.extent = <<MaxTextureSize, MaxTextureSize>>
  /\ nextImage = 4
  /\ Cardinality(DOMAIN m_importedMemoryObjects) = 2

\* C11 as stated: the semaphore pair is created once in setup, lives
\* untouched through every frame and resize, and is destroyed once at
\* teardown, when the two Vulkan semaphores and the two OpenGL semaphore
\* objects are all gone.
C11_PairLifecycle ==
  /\ m_semaphores.created <= 1 /\ m_semaphores.destroyed <= 1
  /\ m_semaphores.created = 0 <=>
       pc \in {"main", "load_gl", "exit_failure", "prepare", "crashed", "setup"}
  /\ m_semaphores.destroyed = 1 <=> pc \in {"done", "exited"}
  /\ (m_semaphores.created = 1 /\ m_semaphores.destroyed = 0) =>
       /\ m_semaphores.vk = {"vkReady", "vkComplete"}
       /\ m_semaphores.gl = {"glReady", "glComplete"}
  /\ m_semaphores.destroyed = 1 =>
       m_semaphores.vk = {} /\ m_semaphores.gl = {}

\* C12 as stated: with a required capability missing the program stops
\* at startup with a failure status, before prepare() runs: nothing is
\* exported or imported and no semaphore is created.
C12_MissingCapabilityExits ==
  caps # Caps =>
    /\ pc \in {"main", "load_gl", "exit_failure"}
    /\ nextHandle = 1
    /\ m_semaphores.created = 0
    /\ glMemoryObjects = {}

\* C14: every main-loop iteration of a non-zero window calls animate() once,
\* then onWindowRefresh() once, then presents once; an iteration of a
\* zero-sized window calls neither and presents nothing; onWindowRefresh
\* never runs without the animate of its iteration before it.
C14_AnimateThenRefreshOnce ==
  /\ iter.animate <= 1 /\ iter.refresh <= 1 /\ iter.swap <= 1
  /\ iter.swap <= iter.refresh /\ iter.refresh <= iter.animate
  /\ iter.zero => (iter.animate = 0 /\ iter.refresh = 0 /\ iter.swap = 0)
  /\ pc = "loop" => iter.swap = iter.animate
  /\ pc = "swap" => (iter.animate = 1 /\ iter.refresh = 1)
  /\ (iter.refresh = 1 /\ iter.swap = 0) =>
       pc \in {"upd_destroy", "upd_prepare", "upd_createGL", "upd_desc",
               "signal", "build", "submit", "waitIdle", "draw", "swap"}

\* two frames were presented, then an iteration found the window zero-sized
C14_Witness ==
  pc = "loop" /\ iter.zero /\ frame = 2 /\ drawDone = 2

\* C15: a handle is exported only from an object created for export: every
\* live device-memory block was allocated with the export structure, the
\* semaphores were created with it, and no export was ever requested from
\* a block or semaphore created without it.
C15_ExportOnlyFromExportable ==
  /\ plainExports = 0
  /\ \A d \in DeviceMems : vkBlocks[d] > 0 => vkExportable[d]
  /\ m_semaphores.created >= 1 => m_semaphores.exportable

\* buffer, both semaphores and two textures have been exported
C15_Witness ==
  /\ nextHandle >= 6 /\ nextImage >= 3 /\ m_semaphores.created = 1
  /\ \E d \in DeviceMems : vkBlocks[d] > 0

\* the cache holds nothing
CacheEmpty ==
  /\ DOMAIN m_importedMemoryObjects = {}
  /\ DOMAIN m_refCounts = {}
  /\ DOMAIN m_win32Handles = {}

\* C16: clear() on an empty cache deletes no memory object, closes no handle
\* and leaves the cache empty; clear() always leaves the cache empty, so a
\* second clear() right after a first one changes nothing.
C16_ClearOnEmptyIsNoOp ==
  /\ [][(clearCalls' = clearCalls + 1) => CacheEmpty']_vars
  /\ [][(clearCalls' = clearCalls + 1 /\ CacheEmpty) =>
          UNCHANGED << worldVars, resVars >>]_vars

\* two clear() calls after prepare() and before the first frame: the first
\* found the buffer's and the texture's entries, the second an empty cache
C16_Witness ==
  /\ Refcounted /\ clearCalls = 2 /\ forcedClear
  /\ frame = 0 /\ pc = "loop" /\ CacheEmpty /\ staleDeletes = 0

\* C17: with both GPU queues executing fairly no CPU-side wait blocks for
\* ever: the fence wait in buildCommandBuffers returns (first frame included),
\* the queue-idle wait in submit returns, every onWindowRefresh reaches its
\* end, and destroy() completes, also when it follows setup with no frame.
\* Each line: the thread is not inside that call for ever.
C17_NoWaitBlocksForever ==
  /\ []<>(pc # "build")
  /\ []<>(pc # "waitIdle")
  /\ []<>(pc \notin {"refresh", "upd_destroy", "upd_prepare", "upd_createGL",
                      "upd_desc", "signal", "build", "submit", "waitIdle", "draw"})
  /\ []<>(pc \notin {"destroy", "compute_destroy"})

\* the second frame has passed its fence wait and its queue-idle wait
C17_Witness ==
  /\ pc = "draw" /\ frame = 2
  /\ waitLog = <<"fence", "queueIdle">>
  /\ completeDone = 2

\* C19 as stated: the command buffer is never re-recorded while a submission
\* of it is pending or executing; each recording comes after a wait on the
\* fence, and the fence is reset (unsignalled) when the next submit is made.
C19_RecordAfterFence ==
  pc = "submit" =>
    /\ VkIdle
    /\ waitLog = << "fence" >>
    /\ ~m_fence

\* a step that destroys the shared image or the semaphore pair
C18_Destroys ==
  \/ vkImages \ vkImages' # {}
  \/ m_semaphores'.destroyed > m_semaphores.destroyed

C20_LatestImage == nextImage - 1

\* C20: when submit() is entered the descriptor set and the recorded command
\* buffer name the image of the most recent update(), which exists (so an
\* update() has happened), and every batch on the Vulkan queue writes that
\* live image, never one a resize has destroyed.
C20_SubmitWritesLiveImage ==
  /\ pc = "submit" =>
       /\ nextImage >= 2
       /\ m_textureTarget.image = C20_LatestImage
       /\ m_descriptorSet = C20_LatestImage
       /\ m_commandBuffer.image = C20_LatestImage
  /\ \A i \in 1..Len(vkQueue \o vkRunning) :
       LET batch == (vkQueue \o vkRunning)[i] IN
       /\ batch.image \in vkImages
       /\ batch.image = C20_LatestImage

\* the second frame resized again and its batch, on the third image, is queued
C20_Witness ==
  /\ pc = "waitIdle" /\ frame = 2 /\ nextImage = 4
  /\ vkQueue # <<>> /\ Head(vkQueue).image = 3
  /\ vkImages = {3}

\* waits on "ready" the Vulkan queue has performed, waits on "complete" the
\* OpenGL stream has performed (frames are numbered 1, 2, ...)
C21_ReadyWaits == completeDone + Len(vkRunning)
C21_CompleteWaits ==
  drawDone + Len(glRunning) +
  (IF glQueue # <<>> /\ Head(glQueue).op = "draw" THEN 1 ELSE 0)

\* both queues have finished everything submitted to them
C21_GpuQuiet ==
  /\ vkQueue = <<>> /\ vkRunning = <<>>
  /\ glQueue = <<>> /\ glRunning = <<>>

\* C21: per frame each semaphore is signalled once and waited on once: the
\* signals performed minus the waits performed is the pending signal, which
\* is never more than one (no signal on a semaphore still signalled), and once
\* a frame's GPU work is done every frame so far has had its signal and its
\* wait on both semaphores and nothing is pending; resized frames included.
C21_OneAlternationPerFrame ==
  /\ semReady = readyDone - C21_ReadyWaits
  /\ semComplete = completeDone - C21_CompleteWaits
  /\ semReady \in {0, 1} /\ semComplete \in {0, 1}
  /\ (C21_GpuQuiet /\ pc \in {"swap", "loop", "animate", "refresh", "destroy",
                             "compute_destroy", "done", "exited"}) =>
       /\ readyDone = frame /\ completeDone = frame /\ drawDone = frame
       /\ semReady = 0 /\ semComplete = 0

\* the second frame recreated the texture and all its GPU work has finished
C21_Witness ==
  /\ pc = "swap" /\ frame = 2 /\ nextImage = 4 /\ C21_GpuQuiet
  /\ m_textureTarget.image = nextImage - 1 /\ drawDone = 2

\* the cache after destroy() was called twice in a row on the buffer / on
\* the texture equals the cache after the first call
C22_SecondDestroyReleasesNothing ==
  /\ \A memIt \in FirstMatch(World, m_bufferVk.memoryObject) :
       LET b1 == BufferDestroy_refcount(World, m_bufferVk, memIt) IN
       \A it2 \in FirstMatch(b1.w, b1.r.memoryObject) :
         LET b2 == BufferDestroy_refcount(b1.w, b1.r, it2) IN
         /\ b2.w.refCounts = b1.w.refCounts
         /\ b2.w.imported = b1.w.imported
         /\ b2.w.glMem = b1.w.glMem
  /\ \A memIt \in FirstMatch(World, m_textureTarget.memoryObject) :
       LET t1 == TextureDestroy_refcount(World, m_textureTarget, memIt) IN
       \A it2 \in FirstMatch(t1.w, t1.r.memoryObject) :
         LET t2 == TextureDestroy_refcount(t1.w, t1.r, it2) IN
         /\ t2.w.refCounts = t1.w.refCounts
         /\ t2.w.imported = t1.w.imported
         /\ t2.w.glMem = t1.w.glMem

\* C22: as long as clear() was not called, the count of every cache entry is
\* the number of structs (buffer, texture) whose memoryObject field holds the
\* entry's id, every held id has an entry, and a second destroy() on a struct
\* (or a destroy() on a struct that holds nothing) releases nothing.
C22_CountIsNumberOfHolders ==
  (Refcounted /\ clearCalls = 0) =>
    /\ \A id \in DOMAIN m_refCounts : m_refCounts[id] = Cardinality(Holders(id))
    /\ HeldIds \subseteq DOMAIN m_refCounts
    /\ C22_SecondDestroyReleasesNothing

\* buffer and texture hold the same entry, counted twice, after a resize
C22_Witness ==
  /\ Refcounted /\ clearCalls = 0 /\ pc = "loop" /\ frame = 2 /\ nextImage >= 3
  /\ m_bufferVk.memoryObject # 0
  /\ m_bufferVk.memoryObject = m_textureTarget.memoryObject
  /\ m_refCounts[m_bufferVk.memoryObject] = 2

\* BufferVkGL::destroy at teardown after a clear() that ran while the buffer
\* held its id: the buffer was created in prepare(), before any clear(), so
\* every entry in the cache now was created after the buffer's was destroyed
C23_StaleBufferRelease ==
  /\ Refcounted /\ forcedClear
  /\ pc = "destroy" /\ pc' = "compute_destroy"
  /\ m_bufferVk.memoryObject # 0

\* C23 as stated: the release issued by a struct whose entry was already
\* destroyed (here by clear()) neither decrements nor destroys an entry
\* created later, also when OpenGL gave the later memory object the same id.
C23_StaleReleaseHitsNoLaterEntry ==
  [][C23_StaleBufferRelease =>
       /\ m_refCounts' = m_refCounts
       /\ m_importedMemoryObjects' = m_importedMemoryObjects
       /\ glMemoryObjects' = glMemoryObjects]_vars

\* C24: the maps of MemoryObjectManager describe the same memory objects:
\* every device-memory key maps to an id with a count, every counted id is
\* the value of exactly one key (so no two keys share an id), and on WIN32
\* the retained-handle map has exactly the counted ids.
C24_MapsAgree ==
  /\ \A d \in DOMAIN m_importedMemoryObjects :
       m_importedMemoryObjects[d] \in DOMAIN m_refCounts
  /\ \A id \in DOMAIN m_refCounts : Cardinality(KeysOf(World, id)) = 1
  /\ \A d, e \in DOMAIN m_importedMemoryObjects :
       m_importedMemoryObjects[d] = m_importedMemoryObjects[e] => d = e
  /\ platform = "WIN32" => DOMAIN m_win32Handles = DOMAIN m_refCounts

\* WIN32: two entries (buffer and texture on different device memories) after
\* entries were created and destroyed by two resizes
C24_Witness ==
  /\ Refcounted /\ platform = "WIN32" /\ frame = 2 /\ nextImage = 4
  /\ Cardinality(DOMAIN m_importedMemoryObjects) = 2
  /\ Cardinality(DOMAIN m_win32Handles) = 2

\* Texture2DVkGL::destroy on a created texture; BufferVkGL::destroy
C25_TextureDestroyStep == vkImages \ vkImages' # {}
C25_BufferDestroyStep == pc = "destroy" /\ pc' = "compute_destroy"

\* C25 as stated: destroying the texture deletes its own OpenGL texture,
\* deletes no memory object but its own and leaves every OpenGL buffer alone,
\* equal ids or not; destroying the buffer deletes no texture and leaves the
\* live texture's memory object alone.
C25_DestroyTouchesOwnObjectsOnly ==
  /\ [][C25_TextureDestroyStep =>
          /\ m_textureTarget.oglId \notin glTextures'
          /\ glBuffers' = glBuffers
          /\ glMemoryObjects \ glMemoryObjects' \subseteq {m_textureTarget.memoryObject}
          /\ (m_bufferVk.memoryObject \in glMemoryObjects
               /\ m_bufferVk.memoryObject # m_textureTarget.memoryObject)
             => m_bufferVk.memoryObject \in glMemoryObjects']_vars
  /\ [][C25_BufferDestroyStep =>
          /\ m_bufferVk.oglId \notin glBuffers'
          /\ glTextures' = glTextures
          /\ (m_textureTarget.memoryObject \in glMemoryObjects
               /\ m_textureTarget.oglId \in glTextures)
             => m_textureTarget.memoryObject \in glMemoryObjects']_vars

\* C26: once destroy() has destroyed the shared buffer and the shared
\* texture all maps of the manager are empty, and the assertion of
\* ~MemoryObjectManager() at process exit does not fire; no clear() is needed.
C26_CacheEmptyAfterTeardown ==
  /\ pc \in {"done", "exited"} => CacheEmpty
  /\ ~debugAbort

\* the process has exited after two resized frames, clear() was never called
C26_Witness ==
  /\ Refcounted /\ pc = "exited" /\ clearCalls = 0
  /\ frame = 2 /\ nextImage = 4 /\ CacheEmpty /\ glMemoryObjects = {}

\* the handles the manager retains (WIN32)
C27_Retained == {m_win32Handles[m] : m \in DOMAIN m_win32Handles}

\* C27: a call of clear() deletes every cached memory object, whatever its
\* count, and each exactly once (it was live, it is gone, nothing is deleted a
\* second time), closes every retained handle, each closed exactly once in
\* all, and leaves the three maps empty.
C27_ClearDestroysEveryEntry ==
  [][(clearCalls' = clearCalls + 1) =>
       /\ DOMAIN m_refCounts \subseteq glMemoryObjects
       /\ glMemoryObjects' = glMemoryObjects \ DOMAIN m_refCounts
       /\ staleDeletes' = staleDeletes
       /\ \A h \in Handles :
            closeCalls'[h] = IF h \in C27_Retained THEN 1 ELSE closeCalls[h]
       /\ \A h \in C27_Retained : closeCalls[h] = 0
       /\ CacheEmpty']_vars

\* WIN32: clear() right after prepare() found one entry with count 2 (buffer
\* and texture on one device memory); the entry, its memory object and its
\* handle are gone while both structs still hold the id
C27_Witness ==
  /\ Refcounted /\ platform = "WIN32" /\ pc = "loop" /\ frame = 0
  /\ clearCalls = 1 /\ forcedClear /\ CacheEmpty /\ glMemoryObjects = {}
  /\ m_bufferVk.memoryObject # 0
  /\ m_bufferVk.memoryObject = m_textureTarget.memoryObject
  /\ \E h \in Handles : closeCalls[h] = 1

\* after an update(): one live image and one live OpenGL texture, of the
\* requested extent, named by the descriptor set; every memory object belongs
\* to the buffer or to the texture
C28_OneTexture(x) ==
  /\ x.w.images = {x.r.image}
  /\ x.w.glTex = {x.r.oglId}
  /\ x.r.extent = newSize
  /\ x.desc = x.r.image
  /\ x.r.memoryObject \in x.w.glMem
  /\ x.w.glMem \subseteq {x.r.memoryObject, m_bufferVk.memoryObject}

\* the cache entry of the texture: one key, count 1
C28_EntryCountOne(x) ==
  Refcounted =>
    /\ Cardinality(KeysOf(x.w, x.r.memoryObject)) = 1
    /\ x.w.refCounts[x.r.memoryObject] = 1

\* the cache entry of the texture: one key, counted once per struct holding it
C28_EntryCountHolders(x) ==
  (Refcounted /\ ~forcedClear) =>
    /\ Cardinality(KeysOf(x.w, x.r.memoryObject)) = 1
    /\ x.w.refCounts[x.r.memoryObject] =
         (IF m_bufferVk.memoryObject = x.r.memoryObject THEN 2 ELSE 1)

\* update() at its last statement, updateDescriptors: with the descriptor
\* written it returns what one update(newSize) leaves; and update(newSize)
\* called again at once, for every choice of the allocator and of OpenGL,
\* leaves the same
C28_UpdateTwice(EntryOK(_)) ==
  (pc = "upd_desc" /\ ~Earliest) =>
    LET x1 == [w |-> World, r |-> m_textureTarget,
               desc |-> updateDescriptors(m_textureTarget)] IN
    /\ C28_OneTexture(x1) /\ EntryOK(x1)
    /\ \A c2 \in UpdateChoices(x1.w, x1.r) :
         LET x2 == update(x1.w, x1.r, newSize, nextImage,
                          c2.d, c2.memoryObject, c2.memIt) IN
         C28_OneTexture(x2) /\ EntryOK(x2)

\* C28 as stated: after update(e); update(e), as after one update(e), there
\* is one live shared texture of extent e, named by the descriptor set, and
\* its cache entry has reference count 1.
C28_UpdateIdempotentCountOne == C28_UpdateTwice(C28_EntryCountOne)

\* C28 amended: the same, with the count of the texture's entry being the
\* number of structs that hold its id: 1, or 2 when the vertex buffer is on
\* the same device memory (no clear() having run with ids held).
C28_UpdateIdempotent == C28_UpdateTwice(C28_EntryCountHolders)

\* update() for a resize has created the second texture, and the buffer
\* shares its cache entry
C28_Witness ==
  /\ Refcounted /\ ~forcedClear /\ frame = 1 /\ pc = "upd_desc"
  /\ m_textureTarget.image = 2
  /\ m_textureTarget.memoryObject = m_bufferVk.memoryObject
  /\ m_textureTarget.memoryObject \in DOMAIN m_refCounts
  /\ m_refCounts[m_textureTarget.memoryObject] = 2

\* C29: with two threads acquiring and releasing references of an existing
\* entry whose count stays at least 1, no update is lost: at every moment the
\* count is the initial count plus the acquires made minus the releases
\* made, so after the last call it is initial + acquires - releases.
C29_NoLostUpdate ==
  callers.count0 # 0 =>
    /\ SharedId \in DOMAIN m_refCounts
    /\ m_refCounts[SharedId] >= 1
    /\ m_refCounts[SharedId] =
         callers.count0
         + callers.thr[1].acquires + callers.thr[2].acquires
         - callers.thr[1].releases - callers.thr[2].releases

\* both threads have returned from their last call; one acquired twice, the
\* other released twice, and the count is the initial one again
C29_Witness ==
  /\ callers.count0 = 3
  /\ \A t \in Threads : callers.thr[t].todo = << >>
  /\ callers.thr[1].acquires = 2 /\ callers.thr[2].releases = 2
  /\ m_refCounts[SharedId] = 3

\* C30: for every texture extent (w, h) with w, h >= 1, buildCommandBuffers
\* dispatches ceil(w/16) by ceil(h/16) workgroups of 16 x 16 invocations: at
\* least one workgroup per axis, every pixel covered by exactly one
\* invocation, and no store by an invocation outside the image.
\* n is ceil(size / 16): the least n with 16 n >= size
C30_IsCeil(n, size) == n * 16 >= size /\ (n - 1) * 16 < size

\* along one axis: no two invocations share an id, and every pixel
\* coordinate is the id of an invocation
C30_AxisCovered(n, size) ==
  /\ Cardinality(AxisIds(n)) = Cardinality(AxisInvocations(n))
  /\ (0..(size - 1)) \subseteq AxisIds(n)

\* ids at the edges of the image and of the dispatch along one axis
C30_EdgeIds(n, size) == AxisIds(n) \cap {0, size - 1, size, n * LocalSize - 1}

\* an invocation stores exactly when its id is a pixel of the image (all ids
\* of one axis against the edge ids of the other: the shader's test is one
\* comparison per axis)
C30_StoresInsideOnly(groups, extent) ==
  LET StoreOK(ix, iy) ==
        ShaderReturns(<<ix, iy>>, extent) <=> ~(ix < extent[1] /\ iy < extent[2])
  IN /\ \A ix \in AxisIds(groups[1]), iy \in C30_EdgeIds(groups[2], extent[2]) :
          StoreOK(ix, iy)
     /\ \A ix \in C30_EdgeIds(groups[1], extent[1]), iy \in AxisIds(groups[2]) :
          StoreOK(ix, iy)

C30_DispatchOK(groups, extent) ==
  /\ \A a \in 1..2 : /\ groups[a] >= 1
                     /\ C30_IsCeil(groups[a], extent[a])
                     /\ C30_AxisCovered(groups[a], extent[a])
  /\ C30_StoresInsideOnly(groups, extent)

\* the dispatches of the versions with update() that are as the claim says,
\* over the extents of the model and every small extent
C30_SmallExtents == {<<w, w>> : w \in 1..(3 * LocalSize)}
C30_GoodDispatches ==
  {e \in Extents \cup C30_SmallExtents \cup {<<EarliestSize, EarliestSize>>} :
     C30_DispatchOK(Dispatch(FALSE, e), e)}

\* the group count is the ceiling for every extent of the slider
C30_CeilSizes ==
  {w \in MinTextureSize..MaxTextureSize :
     GroupCount(FALSE, w) >= 1 /\ C30_IsCeil(GroupCount(FALSE, w), w)}

\* ... and the dispatch of every small extent is as the claim says
C30_EverySizeOK ==
  /\ C30_CeilSizes = MinTextureSize..MaxTextureSize
  /\ C30_SmallExtents \subseteq C30_GoodDispatches

==========================================================================
